---- MODULE Spec2Model ----
(***************************************************************************)
(* A model of examples/fetch.ts of deno-imap: the MIME decoding helpers    *)
(* (decodeBase64, decodeQuotedPrintable, decodeBody, getContentInfo,       *)
(* parseMultipartMessage), the two body-rendering paths of main and main's *)
(* use of the IMAP client.                                                 *)
(*                                                                         *)
(* A JavaScript string is modelled as the sequence of its UTF-16 code      *)
(* units (natural numbers); `undefined` is the value Undefined, which is   *)
(* no string.                                                              *)
(***************************************************************************)
EXTENDS Integers, Sequences, FiniteSets, TLC

VARIABLES pc, body, encoding, headers, boundary, result, result2, calls, message

vars == <<pc, body, encoding, headers, boundary, result, result2, calls, message>>

(***************************************************************************)
(* Characters (code units) the source names in its literals and patterns.  *)
(***************************************************************************)
TAB == 9
LF == 10
CR == 13
SP == 32
DQUOTE == 34
DASH == 45
COLON == 58
SEMI == 59
LT == 60
EQ == 61
GT == 62
REPLACEMENT == 65533

Undefined == <<-1>>

NoHeaders == [n \in {} |-> Undefined]

CRLF == <<CR, LF>>
CRLFCRLF == <<CR, LF, CR, LF>>
S_ContentType == <<67, 111, 110, 116, 101, 110, 116, 45, 84, 121, 112, 101>>
S_ContentTransferEncoding == <<67, 111, 110, 116, 101, 110, 116, 45, 84, 114, 97, 110, 115, 102, 101, 114, 45, 69, 110, 99, 111, 100, 105, 110, 103>>
S_textplain == <<116, 101, 120, 116, 47, 112, 108, 97, 105, 110>>
S_texthtml == <<116, 101, 120, 116, 47, 104, 116, 109, 108>>
S_7bit == <<55, 98, 105, 116>>
S_base64 == <<98, 97, 115, 101, 54, 52>>
S_quotedprintable == <<113, 117, 111, 116, 101, 100, 45, 112, 114, 105, 110, 116, 97, 98, 108, 101>>
S_multipart == <<109, 117, 108, 116, 105, 112, 97, 114, 116, 47>>
S_boundaryEq == <<98, 111, 117, 110, 100, 97, 114, 121, 61>>
S_html == <<104, 116, 109, 108>>
S_dashdash == <<DASH, DASH>>
S_NoReadable == <<78, 111, 32, 114, 101, 97, 100, 97, 98, 108, 101, 32, 99, 111, 110, 116, 101, 110, 116, 32, 102, 111, 117, 110, 100, 32, 105, 110, 32, 116, 104, 101, 32, 109, 101, 115, 115, 97, 103, 101, 46>>

(***************************************************************************)
(* The JavaScript string operations the source calls.                      *)
(***************************************************************************)

\* White space as String.prototype.trim and the pattern \s see it.
WhiteSpace ==
    {9, 10, 11, 12, 13, 32, 160, 5760, 8232, 8233, 8239, 8287, 12288, 65279}
        \cup (8192 .. 8202)

\* The characters the pattern . does not match.
LineTerminators == {10, 13, 8232, 8233}

IsSpace(c) == c \in WhiteSpace

Lower(c) == IF c >= 65 /\ c <= 90 THEN c + 32 ELSE c

ToLowerCase(s) == [i \in 1 .. Len(s) |-> Lower(s[i])]

\* s.trim()
Trim(s) ==
    LET keep == {i \in 1 .. Len(s) : ~IsSpace(s[i])}
    IN  IF keep = {} THEN <<>>
        ELSE LET lo == CHOOSE i \in keep : \A j \in keep : i <= j
                 hi == CHOOSE i \in keep : \A j \in keep : j <= i
             IN  SubSeq(s, lo, hi)

\* Whether pat occurs in s at (1-based) position i.
MatchesAt(s, pat, i) ==
    /\ i >= 1
    /\ i + Len(pat) - 1 <= Len(s)
    /\ \A k \in 1 .. Len(pat) : s[i + k - 1] = pat[k]

\* s.indexOf(pat, from), 1-based; 0 when there is none.
IndexOf(s, pat, from) ==
    LET hits == {i \in from .. (Len(s) - Len(pat) + 1) : MatchesAt(s, pat, i)}
    IN  IF hits = {} THEN 0 ELSE CHOOSE i \in hits : \A j \in hits : i <= j

\* s.includes(pat)
Includes(s, pat) == IndexOf(s, pat, 1) # 0

\* s.startsWith(pat)
StartsWith(s, pat) == MatchesAt(s, pat, 1)

\* s.split(sep) for a non-empty separator: the pieces between the
\* non-overlapping occurrences of sep, found left to right.
RECURSIVE Split(_, _)
Split(s, sep) ==
    LET i == IndexOf(s, sep, 1)
    IN  IF i = 0 THEN <<s>>
        ELSE <<SubSeq(s, 1, i - 1)>> \o Split(SubSeq(s, i + Len(sep), Len(s)), sep)

\* pieces.join(sep)
RECURSIVE Join(_, _)
Join(pieces, sep) ==
    IF Len(pieces) = 0 THEN <<>>
    ELSE IF Len(pieces) = 1 THEN pieces[1]
    ELSE pieces[1] \o sep \o Join(Tail(pieces), sep)

\* new TextDecoder().decode(bytes): UTF-8, errors replaced by U+FFFD, never
\* throwing.  cp is the code point being assembled, need the continuation
\* bytes still expected, lo..hi the range the next one must lie in.
RECURSIVE Utf8Points(_, _, _, _, _, _)
Utf8Points(bytes, i, cp, need, lo, hi) ==
    IF i > Len(bytes) THEN (IF need # 0 THEN <<REPLACEMENT>> ELSE <<>>)
    ELSE LET b == bytes[i] IN
      IF need = 0 THEN
        IF b <= 127 THEN <<b>> \o Utf8Points(bytes, i + 1, 0, 0, 128, 191)
        ELSE IF b >= 194 /\ b <= 223
          THEN Utf8Points(bytes, i + 1, b % 32, 1, 128, 191)
        ELSE IF b >= 224 /\ b <= 239
          THEN Utf8Points(bytes, i + 1, b % 16, 2,
                          IF b = 224 THEN 160 ELSE 128,
                          IF b = 237 THEN 159 ELSE 191)
        ELSE IF b >= 240 /\ b <= 244
          THEN Utf8Points(bytes, i + 1, b % 8, 3,
                          IF b = 240 THEN 144 ELSE 128,
                          IF b = 244 THEN 143 ELSE 191)
        ELSE <<REPLACEMENT>> \o Utf8Points(bytes, i + 1, 0, 0, 128, 191)
      ELSE IF b < lo \/ b > hi
        THEN <<REPLACEMENT>> \o Utf8Points(bytes, i, 0, 0, 128, 191)
      ELSE IF need = 1
        THEN <<cp * 64 + (b % 64)>> \o Utf8Points(bytes, i + 1, 0, 0, 128, 191)
      ELSE Utf8Points(bytes, i + 1, cp * 64 + (b % 64), need - 1, 128, 191)

\* A code point as UTF-16 code units.
CodeUnits(p) ==
    IF p < 65536 THEN <<p>>
    ELSE <<55296 + ((p - 65536) \div 1024), 56320 + ((p - 65536) % 1024)>>

RECURSIVE Utf16(_)
Utf16(points) ==
    IF points = <<>> THEN <<>> ELSE CodeUnits(Head(points)) \o Utf16(Tail(points))

\* Bytes below 128 decode to themselves, so a text of such bytes only is
\* returned as it is.
TextDecode(bytes) ==
    LET start == IF Len(bytes) >= 3 /\ SubSeq(bytes, 1, 3) = <<239, 187, 191>>
                 THEN 4 ELSE 1
    IN  IF \A i \in 1 .. Len(bytes) : bytes[i] <= 127 THEN bytes
        ELSE Utf16(Utf8Points(bytes, start, 0, 0, 128, 191))

\* decodeUint8Array
decodeUint8Array(data) == TextDecode(data)

(***************************************************************************)
(* decodeBase64, decodeQuotedPrintable, decodeBody                         *)
(***************************************************************************)

\* The value an exception leaving a function is modelled by.
Thrown == <<-2>>

AsciiWhitespace == {9, 10, 12, 13, 32}

\* The value of a character of the base64 alphabet, -1 for any other.
Base64Value(c) ==
    IF c >= 65 /\ c <= 90 THEN c - 65
    ELSE IF c >= 97 /\ c <= 122 THEN c - 71
    ELSE IF c >= 48 /\ c <= 57 THEN c + 4
    ELSE IF c = 43 THEN 62
    ELSE IF c = 47 THEN 63
    ELSE -1

RemoveAsciiWhitespace(s) == SelectSeq(s, LAMBDA c : c \notin AsciiWhitespace)

\* One or two trailing '=' are dropped when the length is a multiple of 4.
StripPadding(d) ==
    IF Len(d) > 0 /\ Len(d) % 4 = 0 /\ d[Len(d)] = EQ
    THEN IF d[Len(d) - 1] = EQ THEN SubSeq(d, 1, Len(d) - 2)
         ELSE SubSeq(d, 1, Len(d) - 1)
    ELSE d

\* The bytes of the sextets d[i..], buf holding the bits not yet written.
RECURSIVE Base64Bytes(_, _, _, _)
Base64Bytes(d, i, buf, bits) ==
    IF i > Len(d)
    THEN IF bits = 12 THEN <<buf \div 16>>
         ELSE IF bits = 18 THEN <<buf \div 1024, (buf \div 4) % 256>>
         ELSE <<>>
    ELSE LET nb == buf * 64 + Base64Value(d[i]) IN
         IF bits + 6 = 24
         THEN <<nb \div 65536, (nb \div 256) % 256, nb % 256>>
                  \o Base64Bytes(d, i + 1, 0, 0)
         ELSE Base64Bytes(d, i + 1, nb, bits + 6)

\* atob(str): the decoded bytes, or ok = FALSE where it throws.
atob(str) ==
    LET d == StripPadding(RemoveAsciiWhitespace(str))
    IN  IF Len(d) % 4 = 1 \/ \E i \in 1 .. Len(d) : Base64Value(d[i]) = -1
        THEN [ok |-> FALSE, bytes |-> <<>>]
        ELSE [ok |-> TRUE, bytes |-> Base64Bytes(d, 1, 0, 0)]

\* decodeBase64 without its try/catch.
decodeBase64_nocatch(str) ==
    LET r == atob(str) IN IF r.ok THEN TextDecode(r.bytes) ELSE Thrown

decodeBase64(str) ==
    LET r == atob(str) IN IF r.ok THEN TextDecode(r.bytes) ELSE str

S_softBreak == <<EQ, CR, LF>>

\* str.replace(/=\r\n/g, "")
RECURSIVE RemoveSoftBreaks(_)
RemoveSoftBreaks(s) ==
    LET i == IndexOf(s, S_softBreak, 1)
    IN  IF i = 0 THEN s
        ELSE SubSeq(s, 1, i - 1) \o RemoveSoftBreaks(SubSeq(s, i + 3, Len(s)))

\* The class [0-9A-F], with the /i flag the source does not set.
IsHexDigit_ignoreCase(c) ==
    (c >= 48 /\ c <= 57) \/ (c >= 65 /\ c <= 70) \/ (c >= 97 /\ c <= 102)

\* The class [0-9A-F]
IsHexDigit(c) == (c >= 48 /\ c <= 57) \/ (c >= 65 /\ c <= 70)

\* parseInt of one hexadecimal digit
HexValue(c) ==
    IF c >= 48 /\ c <= 57 THEN c - 48
    ELSE IF c >= 65 /\ c <= 70 THEN c - 55
    ELSE c - 87

\* .replace(/=([0-9A-F]{2})/g, (_, hex) => String.fromCharCode(parseInt(hex, 16)))
RECURSIVE ReplaceEscapes(_)
ReplaceEscapes(s) ==
    IF s = <<>> THEN <<>>
    ELSE IF Len(s) >= 3 /\ s[1] = EQ /\ IsHexDigit(s[2]) /\ IsHexDigit(s[3])
    THEN <<HexValue(s[2]) * 16 + HexValue(s[3])>>
             \o ReplaceEscapes(SubSeq(s, 4, Len(s)))
    ELSE <<Head(s)>> \o ReplaceEscapes(Tail(s))

decodeQuotedPrintable(str) == ReplaceEscapes(RemoveSoftBreaks(str))

decodeBody(b, enc) ==
    IF enc = Undefined \/ enc = <<>> THEN b
    ELSE IF ToLowerCase(enc) = S_base64 THEN decodeBase64(b)
    ELSE IF ToLowerCase(enc) = S_quotedprintable THEN decodeQuotedPrintable(b)
    ELSE b

(***************************************************************************)
(* The tag stripping of lines 167, 308 and 385:                            *)
(*   .replace(/<[^>]*>/g, " ").replace(/\s+/g, " ").trim()                 *)
(***************************************************************************)

\* .replace(/<[^>]*>/, " "): the first match only.
ReplaceTags_firstOnly(s) ==
    LET p == IndexOf(s, <<LT>>, 1)
        q == IF p = 0 THEN 0 ELSE IndexOf(s, <<GT>>, p + 1)
    IN  IF q = 0 THEN s
        ELSE SubSeq(s, 1, p - 1) \o <<SP>> \o SubSeq(s, q + 1, Len(s))

\* .replace(/<[^>]*>/g, " "): a match starts at the first '<' that has a '>'
\* after it and ends at the first such '>'.
RECURSIVE ReplaceTags(_)
ReplaceTags(s) ==
    LET p == IndexOf(s, <<LT>>, 1)
        q == IF p = 0 THEN 0 ELSE IndexOf(s, <<GT>>, p + 1)
    IN  IF q = 0 THEN s
        ELSE SubSeq(s, 1, p - 1) \o <<SP>> \o ReplaceTags(SubSeq(s, q + 1, Len(s)))

\* s with its leading white space dropped.
RECURSIVE DropSpace(_)
DropSpace(s) ==
    IF s # <<>> /\ IsSpace(Head(s)) THEN DropSpace(Tail(s)) ELSE s

\* .replace(/\s+/g, " ")
RECURSIVE CollapseSpace(_)
CollapseSpace(s) ==
    IF s = <<>> THEN <<>>
    ELSE IF IsSpace(Head(s)) THEN <<SP>> \o CollapseSpace(DropSpace(s))
    ELSE <<Head(s)>> \o CollapseSpace(Tail(s))

StripHtml(s) == Trim(CollapseSpace(ReplaceTags(s)))

(***************************************************************************)
(* The inputs.                                                             *)
(***************************************************************************)

\* Every string over alphabet of at most n characters.
Strings(alphabet, n) == UNION {[1 .. k -> alphabet] : k \in 0 .. n}

MaxBase64Len == 5
MaxQPLen == 6
MaxHtmlLen == 5

\* 'Y', 'Q', '/', '=', ' ' and '!' (no base64 character)
Base64Chars == {89, 81, 47, EQ, SP, 33}

\* '=', CR, LF, '4', 'A' and 'c' (a lower-case hexadecimal digit)
QPChars == {EQ, CR, LF, 52, 65, 99}

\* '<', '>', ' ', LF and 'a'
HtmlChars == {LT, GT, SP, LF, 97}

S_BASE64 == <<66, 65, 83, 69, 54, 52>>

Idle ==
    /\ headers = NoHeaders
    /\ boundary = Undefined
    /\ result2 = Undefined
    /\ calls = <<>>
    /\ message = Undefined

(***************************************************************************)
(* SpecBase64 and SpecQP: decodeBody applied to a body under base64 and    *)
(* under quoted-printable.                                                 *)
(***************************************************************************)
InitBase64 ==
    /\ pc = "start"
    /\ encoding \in {S_base64, S_BASE64}
    /\ body \in Strings(Base64Chars, MaxBase64Len)
    /\ result = Undefined
    /\ Idle

InitQP ==
    /\ pc = "start"
    /\ encoding = S_quotedprintable
    /\ body \in Strings(QPChars, MaxQPLen)
    /\ result = Undefined
    /\ Idle

DecodeBody ==
    /\ pc = "start"
    /\ result' = decodeBody(body, encoding)
    /\ pc' = "done"
    /\ UNCHANGED <<body, encoding, headers, boundary, result2, calls, message>>

NextDecode == DecodeBody

SpecBase64 == InitBase64 /\ [][NextDecode]_vars

SpecQP == InitQP /\ [][NextDecode]_vars

(***************************************************************************)
(* SpecStrip: the tag stripping applied to a text and then to its own      *)
(* output.                                                                 *)
(***************************************************************************)
InitStrip ==
    /\ pc = "start"
    /\ body \in Strings(HtmlChars, MaxHtmlLen)
    /\ encoding = Undefined
    /\ result = Undefined
    /\ Idle

Strip ==
    /\ pc = "start"
    /\ result' = StripHtml(body)
    /\ pc' = "stripped"
    /\ UNCHANGED <<body, encoding, headers, boundary, result2, calls, message>>

\* The output is the input of a second application.
StripAgain ==
    /\ pc = "stripped"
    /\ result2' = StripHtml(result)
    /\ pc' = "restripped"
    /\ UNCHANGED <<body, encoding, headers, boundary, result, calls, message>>

NextStrip == Strip \/ StripAgain

SpecStrip == InitStrip /\ [][NextStrip]_vars

(***************************************************************************)
(* Claims on decodeBody and the tag stripping.                             *)
(***************************************************************************)

\* The characters of s that carry base64 data: those that are not ASCII
\* white space, less the one or two '=' that pad a length that is a
\* multiple of 4.
Base64Data(s) ==
    LET d == SelectSeq(s, LAMBDA c : c \notin {9, 10, 12, 13, 32})
        n == Len(d)
        pad == IF n % 4 # 0 \/ n = 0 \/ d[n] # EQ THEN 0
               ELSE IF d[n - 1] = EQ THEN 2 ELSE 1
    IN  SubSeq(d, 1, n - pad)

Base64WellFormed(s) ==
    /\ Len(Base64Data(s)) % 4 # 1
    /\ \A i \in 1 .. Len(Base64Data(s)) : Base64Value(Base64Data(s)[i]) >= 0

\* Bit j (from 0) of the stream of the 6-bit values of d.
Base64Bit(d, j) == (Base64Value(d[(j \div 6) + 1]) \div (2 ^ (5 - (j % 6)))) % 2

\* The whole bytes of that bit stream.
Base64FullDecoding(d) ==
    [k \in 1 .. ((6 * Len(d)) \div 8) |->
        LET B(t) == Base64Bit(d, 8 * (k - 1) + t)
        IN  128 * B(0) + 64 * B(1) + 32 * B(2) + 16 * B(3)
              + 8 * B(4) + 4 * B(5) + 2 * B(6) + B(7)]

\* C1: decodeBody(body, "base64") never lets an exception out and never
\* returns a partial decode: the result is the text of every byte the whole
\* input encodes, or, when the input has a character outside the alphabet
\* or misplaced padding, the input itself.
C1_Base64AllOrNothing ==
    (pc = "done" /\ ToLowerCase(encoding) = S_base64) =>
        /\ result # Thrown
        /\ IF Base64WellFormed(body)
           THEN result = TextDecode(Base64FullDecoding(Base64Data(body)))
           ELSE result = body

\* A malformed base64 body came back unchanged.
C1_Witness ==
    /\ pc = "done"
    /\ encoding = S_BASE64
    /\ Len(body) = MaxBase64Len
    /\ ~Base64WellFormed(body)
    /\ \E i \in 1 .. Len(body) : Base64Value(body[i]) >= 0
    /\ result = body

\* The positions of s a soft line break "=" CR LF covers.
InSoftBreak(s, i) ==
    \E j \in {i - 2, i - 1, i} : MatchesAt(s, <<EQ, CR, LF>>, j)

\* The characters of s at the positions keep(i) holds of, in order.
KeepAt(s, keep(_)) ==
    LET F[i \in 0 .. Len(s)] ==
            IF i = 0 THEN <<>>
            ELSE IF keep(i) THEN Append(F[i - 1], s[i]) ELSE F[i - 1]
    IN  F[Len(s)]

UpperHex == (48 .. 57) \cup (65 .. 70)

\* An escape "=XX" of two upper-case hexadecimal digits starts at i.
EscapeAt(s, i) ==
    /\ i >= 1
    /\ i + 2 <= Len(s)
    /\ s[i] = EQ
    /\ s[i + 1] \in UpperHex
    /\ s[i + 2] \in UpperHex

Digit16(c) == IF c <= 57 THEN c - 48 ELSE c - 55

\* s with every escape replaced by the character of its value.
EscapesReplaced(s) ==
    LET F[i \in 0 .. Len(s)] ==
            IF i = 0 THEN <<>>
            ELSE IF EscapeAt(s, i)
              THEN Append(F[i - 1], 16 * Digit16(s[i + 1]) + Digit16(s[i + 2]))
            ELSE IF EscapeAt(s, i - 1) \/ EscapeAt(s, i - 2) THEN F[i - 1]
            ELSE Append(F[i - 1], s[i])
    IN  F[Len(s)]

\* C2 (as amended): decodeBody(body, "quoted-printable") removes every
\* "=" CR LF of the body, then replaces every "=XX" of the outcome whose XX
\* are two upper-case hexadecimal digits (0-9, A-F) by the character of that
\* value, and leaves every other character as it is.
C2_QuotedPrintableUpperHexCRLF ==
    (pc = "done" /\ ToLowerCase(encoding) = S_quotedprintable) =>
        result = EscapesReplaced(KeepAt(body, LAMBDA i : ~InSoftBreak(body, i)))

\* A body with a soft line break and an escape was decoded to "J".
C2_Witness ==
    /\ pc = "done"
    /\ encoding = S_quotedprintable
    /\ Includes(body, <<EQ, CR, LF>>)
    /\ result = <<74>>

AnyHex == (48 .. 57) \cup (65 .. 70) \cup (97 .. 102)

\* s without its soft line breaks, a soft line break being an "=" before
\* any line terminator: CR LF, a lone CR or a lone LF.
RECURSIVE NoSoftBreaksAnyTerminator(_)
NoSoftBreaksAnyTerminator(s) ==
    IF s = <<>> THEN <<>>
    ELSE IF Len(s) >= 3 /\ SubSeq(s, 1, 3) = <<EQ, CR, LF>>
      THEN NoSoftBreaksAnyTerminator(SubSeq(s, 4, Len(s)))
    ELSE IF Len(s) >= 2 /\ s[1] = EQ /\ s[2] \in {CR, LF}
      THEN NoSoftBreaksAnyTerminator(SubSeq(s, 3, Len(s)))
    ELSE <<Head(s)>> \o NoSoftBreaksAnyTerminator(Tail(s))

\* s with every "=XX" replaced, XX being any two hexadecimal digits.
RECURSIVE AnyHexEscapesReplaced(_)
AnyHexEscapesReplaced(s) ==
    IF s = <<>> THEN <<>>
    ELSE IF Len(s) >= 3 /\ s[1] = EQ /\ s[2] \in AnyHex /\ s[3] \in AnyHex
      THEN <<16 * HexValue(s[2]) + HexValue(s[3])>>
               \o AnyHexEscapesReplaced(SubSeq(s, 4, Len(s)))
    ELSE <<Head(s)>> \o AnyHexEscapesReplaced(Tail(s))

\* C2 (as stated): every soft line break, before any line terminator, is
\* removed and every "=XX" of any two hexadecimal digits is replaced.
C2_AnyHexAnyTerminator ==
    (pc = "done" /\ ToLowerCase(encoding) = S_quotedprintable) =>
        result = AnyHexEscapesReplaced(NoSoftBreaksAnyTerminator(body))

HasTag(s) == \E i, j \in 1 .. Len(s) : i < j /\ s[i] = LT /\ s[j] = GT

\* C8: the tag stripping is idempotent, and its output holds no complete
\* tag, no two adjacent white-space characters and no white space at either
\* end.
C8_StripIdempotent ==
    /\ pc = "restripped" => result2 = result
    /\ pc \in {"stripped", "restripped"} =>
         /\ ~HasTag(result)
         /\ \A i \in 1 .. Len(result) - 1 :
                ~(result[i] \in WhiteSpace /\ result[i + 1] \in WhiteSpace)
         /\ result # <<>> =>
                result[1] \notin WhiteSpace /\ result[Len(result)] \notin WhiteSpace

\* A text with two tags and a white-space run was stripped twice.
C8_Witness ==
    /\ pc = "restripped"
    /\ \E i, j \in 1 .. Len(body) :
           /\ i + 1 < j
           /\ MatchesAt(body, <<LT, GT>>, i) /\ MatchesAt(body, <<LT>>, j)
           /\ HasTag(SubSeq(body, j, Len(body)))
    /\ result # <<>>
    /\ result # body

(***************************************************************************)
(* Header parsing: the name:value pattern of lines 142 and 342 and the     *)
(* folding-aware loop of the raw path (lines 320-353).                     *)
(***************************************************************************)

\* headers[name] = value
Put(h, name, value) ==
    [n \in DOMAIN h \cup {name} |-> IF n = name THEN value ELSE h[n]]

\* s up to its first line terminator: what (.*) matches at the start of s.
UpToLineEnd(s) ==
    LET ends == {i \in 1 .. Len(s) : s[i] \in LineTerminators}
    IN  IF ends = {} THEN s
        ELSE SubSeq(s, 1, (CHOOSE i \in ends : \A j \in ends : i <= j) - 1)

\* line.match(/^([^:]+):\s*(.*)/): the name is what precedes the first ':'
\* (at least one character), the value what follows it and the white space
\* after it, up to the end of the line.
HeaderMatch(line) ==
    LET c == IndexOf(line, <<COLON>>, 1)
    IN  IF c <= 1 THEN [ok |-> FALSE, name |-> <<>>, value |-> <<>>]
        ELSE [ok |-> TRUE,
              name |-> SubSeq(line, 1, c - 1),
              value |-> UpToLineEnd(DropSpace(SubSeq(line, c + 1, Len(line))))]

\* /^\s/.test(line)
IsContinuation(line) == line # <<>> /\ IsSpace(line[1])

\* currentValue += line.trim(): the joining space left out.
Continue_noSpace(currentValue, line) == currentValue \o Trim(line)

\* currentValue += " " + line.trim()
Continue(currentValue, line) == currentValue \o <<SP>> \o Trim(line)

\* if (currentHeader) headers[currentHeader] = currentValue
Save(h, currentHeader, currentValue) ==
    IF currentHeader # <<>> THEN Put(h, currentHeader, currentValue) ELSE h

\* The loop over headerLines from line i on, and the save after it.
RECURSIVE FoldHeaderLines(_, _, _, _, _)
FoldHeaderLines(headerLines, i, h, currentHeader, currentValue) ==
    IF i > Len(headerLines) THEN Save(h, currentHeader, currentValue)
    ELSE LET line == headerLines[i] IN
      IF IsContinuation(line)
      THEN FoldHeaderLines(headerLines, i + 1, h, currentHeader,
                           Continue(currentValue, line))
      ELSE LET saved == Save(h, currentHeader, currentValue)
               match == HeaderMatch(line)
           IN  IF match.ok
               THEN FoldHeaderLines(headerLines, i + 1, saved, match.name, match.value)
               ELSE FoldHeaderLines(headerLines, i + 1, saved, currentHeader, currentValue)

\* The header map the raw path builds from headerText = parts[0].
parseHeaderBlock(headerText) ==
    FoldHeaderLines(Split(headerText, CRLF), 1, NoHeaders, <<>>, <<>>)

\* The lines a header block is drawn from: "A:x", "A: x ", "A:", "B:y",
\* " y", TAB " y  ", " ", "x", ":x", "A:x" LF "y" and the empty line.
HeaderLineChoices ==
    { <<65, 58, 120>>, <<65, 58, 32, 120, 32>>, <<65, 58>>, <<66, 58, 121>>,
      <<32, 121>>, <<9, 32, 121, 32, 32>>, <<32>>, <<120>>, <<58, 120>>,
      <<65, 58, 120, 10, 121>>, <<>> }

MaxHeaderLines == 3

(***************************************************************************)
(* SpecHeaderBlock: the raw path's header parsing applied to a raw message *)
(* whose header block has up to MaxHeaderLines lines.                      *)
(***************************************************************************)
InitHeaderBlock ==
    /\ pc = "start"
    /\ \E k \in 0 .. MaxHeaderLines :
         \E lines \in [1 .. k -> HeaderLineChoices] :
            body = Join(lines, CRLF) \o CRLFCRLF \o <<120>>
    /\ encoding = Undefined
    /\ headers = NoHeaders
    /\ boundary = Undefined
    /\ result = Undefined
    /\ result2 = Undefined
    /\ calls = <<>>
    /\ message = Undefined

\* Lines 320-353: rawText.split("\r\n\r\n"), then the loop over parts[0].
ParseRawHeaders ==
    /\ pc = "start"
    /\ LET parts == Split(body, CRLFCRLF)
       IN  /\ Len(parts) > 1
           /\ headers' = parseHeaderBlock(parts[1])
    /\ pc' = "parsed"
    /\ UNCHANGED <<body, encoding, boundary, result, result2, calls, message>>

NextHeaderBlock == ParseRawHeaders

SpecHeaderBlock == InitHeaderBlock /\ [][NextHeaderBlock]_vars

\* The lines of the header block of the raw message.
BlockLines == Split(Split(body, CRLFCRLF)[1], CRLF)

\* The lines that start a header: a name:value line that is no continuation.
HeaderStarts ==
    {i \in 1 .. Len(BlockLines) :
        ~IsContinuation(BlockLines[i]) /\ HeaderMatch(BlockLines[i]).ok}

\* The last line that starts a header called name.
LastStart(name) ==
    CHOOSE i \in HeaderStarts :
        /\ HeaderMatch(BlockLines[i]).name = name
        /\ \A j \in HeaderStarts : HeaderMatch(BlockLines[j]).name = name => j <= i

\* The continuation lines of the header started at line i: those before the
\* next line that starts a header.
ContinuationsOf(i) ==
    {k \in (i + 1) .. Len(BlockLines) :
        /\ IsContinuation(BlockLines[k])
        /\ \A j \in HeaderStarts : j > i => k < j}

\* The first line's value, then each continuation line, trimmed, after one
\* space.
FoldedValue(i) ==
    LET F[k \in i .. Len(BlockLines)] ==
            IF k = i THEN HeaderMatch(BlockLines[i]).value
            ELSE IF k \in ContinuationsOf(i)
              THEN F[k - 1] \o <<SP>> \o Trim(BlockLines[k])
            ELSE F[k - 1]
    IN  F[Len(BlockLines)]

\* C3 (as amended): the header map has exactly one entry for each name that
\* starts a header; its value is the value of the last header line of that
\* name followed, for each of its continuation lines in order, by one space
\* and the continuation line trimmed.  The value as a whole is not trimmed.
\* A later header of the same name overwrites the earlier one, and a line
\* that is neither a name:value line nor a continuation adds no entry.
C3_FoldedHeaderValue ==
    pc = "parsed" =>
        /\ DOMAIN headers = {HeaderMatch(BlockLines[i]).name : i \in HeaderStarts}
        /\ \A name \in DOMAIN headers : headers[name] = FoldedValue(LastStart(name))

\* "A:x" folded over the lines " y" and TAB " y  " became the one entry
\* A = "x y y".
C3_Witness ==
    /\ pc = "parsed"
    /\ BlockLines = << <<65, 58, 120>>, <<32, 121>>, <<9, 32, 121, 32, 32>> >>
    /\ DOMAIN headers = { <<65>> }
    /\ headers[<<65>>] = <<120, 32, 121, 32, 121>>

\* C3 (as stated): the value of a header split across continuation lines is
\* the first line's value and the continuation lines joined by a single
\* space, trimmed.
C3_FoldedValueTrimmed ==
    pc = "parsed" =>
        /\ DOMAIN headers = {HeaderMatch(BlockLines[i]).name : i \in HeaderStarts}
        /\ \A name \in DOMAIN headers :
              ContinuationsOf(LastStart(name)) # {} =>
                  headers[name] = Trim(FoldedValue(LastStart(name)))

(***************************************************************************)
(* getContentInfo (lines 85-112).  A header of the structured message is a *)
(* string or an array of strings: isArray tells which, and items holds the *)
(* string, or the array's elements.                                        *)
(***************************************************************************)
Str(s) == [isArray |-> FALSE, items |-> <<s>>]

Arr(xs) == [isArray |-> TRUE, items |-> xs]

\* Whether headers[name] is truthy: an array always is, a string when it is
\* not empty.
HasHeader(h, name) ==
    /\ name \in DOMAIN h
    /\ h[name].isArray \/ h[name].items[1] # <<>>

\* Array.isArray(v) ? v[0] : v
FirstValue(v) ==
    IF v.isArray /\ v.items = <<>> THEN Undefined ELSE v.items[1]

\* ctHeader.match(/^([^;]+)/): what precedes the first ';', at least one
\* character; Undefined when there is no match.
TypeMatch(ctHeader) ==
    LET semi == IndexOf(ctHeader, <<SEMI>>, 1)
    IN  IF ctHeader = <<>> \/ semi = 1 THEN Undefined
        ELSE IF semi = 0 THEN ctHeader
        ELSE SubSeq(ctHeader, 1, semi - 1)

\* The longest run of [^";\s] characters that starts at position p of s.
TokenFrom(s, p) ==
    LET stops == {i \in p .. Len(s) : s[i] \in {DQUOTE, SEMI} \cup WhiteSpace}
        stop == IF stops = {} THEN Len(s) + 1
                ELSE CHOOSE i \in stops : \A j \in stops : i <= j
    IN  SubSeq(s, p, stop - 1)

\* What /boundary="?([^";\s]+)"?/i captures when matched at position i of
\* s, Undefined when it does not match there: "boundary=" in any case, an
\* optional quote, then at least one token character.
BoundaryAt(s, i) ==
    LET p == i + Len(S_boundaryEq)
        q == IF p <= Len(s) /\ s[p] = DQUOTE THEN p + 1 ELSE p
    IN  IF /\ i + Len(S_boundaryEq) - 1 <= Len(s)
           /\ ToLowerCase(SubSeq(s, i, p - 1)) = S_boundaryEq
           /\ TokenFrom(s, q) # <<>>
        THEN TokenFrom(s, q)
        ELSE Undefined

\* s.match(/boundary="?([^";\s]+)"?/i)?.[1]: the leftmost match.
BoundaryMatch(s) ==
    LET hits == {i \in 1 .. Len(s) : BoundaryAt(s, i) # Undefined}
    IN  IF hits = {} THEN Undefined
        ELSE BoundaryAt(s, CHOOSE i \in hits : \A j \in hits : i <= j)

\* The result of getContentInfo; threw when a TypeError leaves it.
ContentInfo(type, enc, bnd) ==
    [threw |-> FALSE, contentType |-> type, encoding |-> enc, boundary |-> bnd]

ContentInfoThrown ==
    [threw |-> TRUE, contentType |-> Undefined, encoding |-> Undefined,
     boundary |-> Undefined]

getContentInfo(h) ==
    LET ctHeader == IF HasHeader(h, S_ContentType)
                    THEN FirstValue(h[S_ContentType]) ELSE <<>>
        cteHeader == IF HasHeader(h, S_ContentTransferEncoding)
                     THEN FirstValue(h[S_ContentTransferEncoding]) ELSE <<>>
        contentType ==
            IF HasHeader(h, S_ContentType) /\ TypeMatch(ctHeader) # Undefined
            THEN ToLowerCase(Trim(TypeMatch(ctHeader)))
            ELSE S_textplain
        bnd == IF HasHeader(h, S_ContentType) THEN BoundaryMatch(ctHeader)
               ELSE Undefined
        enc == IF HasHeader(h, S_ContentTransferEncoding)
               THEN ToLowerCase(Trim(cteHeader))
               ELSE S_7bit
    IN  IF ctHeader = Undefined \/ cteHeader = Undefined THEN ContentInfoThrown
        ELSE ContentInfo(contentType, enc, bnd)

\* The pieces a Content-Type value is drawn from: "text/plain",
\* "Multipart/Mixed", ";", " ", "boundary=", "BOUNDARY=" with a quote, "b1"
\* and a quote.
TypeTokens ==
    { S_textplain,
      <<77, 117, 108, 116, 105, 112, 97, 114, 116, 47, 77, 105, 120, 101, 100>>,
      <<SEMI>>, <<SP>>, S_boundaryEq,
      <<66, 79, 85, 78, 68, 65, 82, 89, 61, 34>>, <<98, 49>>, <<DQUOTE>> }

MaxTypeTokens == 4

RECURSIVE Concat(_)
Concat(pieces) ==
    IF pieces = <<>> THEN <<>> ELSE Head(pieces) \o Concat(Tail(pieces))

\* The Content-Type values of at most n pieces.
TypeValues(n) ==
    UNION {{Concat(t) : t \in [1 .. k -> TypeTokens]} : k \in 0 .. n}

\* What a header map may hold for Content-Transfer-Encoding: "base64",
\* " BASE64 ", the array ["7bit"] and the empty array.
EncodingHeaders ==
    { Str(S_base64), Str(<<32, 66, 65, 83, 69, 54, 52, 32>>), Arr(<<S_7bit>>),
      Arr(<<>>) }

\* The header maps getContentInfo is applied to, their Content-Type values
\* of at most n pieces.
HeaderMaps(n) ==
    LET types == {Str(v) : v \in TypeValues(n)}
                    \cup {Arr(<<>>), Arr(<<S_texthtml, S_textplain>>)}
    IN  {NoHeaders}
          \cup {Put(NoHeaders, S_ContentType, t) : t \in types}
          \cup {Put(NoHeaders, S_ContentTransferEncoding, e) : e \in EncodingHeaders}
          \cup {Put(Put(NoHeaders, S_ContentType, t), S_ContentTransferEncoding, e) :
                    t \in types, e \in EncodingHeaders}

(***************************************************************************)
(* SpecContentInfo: getContentInfo applied to a header map.                *)
(***************************************************************************)
InitContentInfo ==
    /\ pc = "start"
    /\ headers \in HeaderMaps(MaxTypeTokens)
    /\ body = <<>>
    /\ encoding = Undefined
    /\ boundary = Undefined
    /\ result = Undefined
    /\ result2 = Undefined
    /\ calls = <<>>
    /\ message = Undefined

GetContentInfo ==
    /\ pc = "start"
    /\ result' = getContentInfo(headers)
    /\ pc' = "done"
    /\ UNCHANGED <<body, encoding, headers, boundary, result2, calls, message>>

NextContentInfo == GetContentInfo

SpecContentInfo == InitContentInfo /\ [][NextContentInfo]_vars

\* C4: the ContentInfo has a boundary only when its contentType starts with
\* "multipart/": for any other contentType the boundary is undefined, even
\* if the Content-Type header carries a boundary= parameter.
C4_BoundaryOnlyForMultipart ==
    (pc = "done" /\ ~result.threw) =>
        (~StartsWith(result.contentType, S_multipart) => result.boundary = Undefined)

\* Header values that are strings or arrays with a first element.
PlainHeaders ==
    \A name \in DOMAIN headers : FirstValue(headers[name]) # Undefined

\* C5: getContentInfo returns without failing, and its contentType is a
\* non-empty lower-case string, "text/plain" when the Content-Type header is
\* absent or unparseable.
C5_ContentTypeNonEmptyLowerCase ==
    (pc = "done" /\ PlainHeaders) =>
        /\ ~result.threw
        /\ result.contentType # <<>>
        /\ result.contentType = ToLowerCase(result.contentType)
        /\ (~HasHeader(headers, S_ContentType)
              \/ TypeMatch(FirstValue(headers[S_ContentType])) = Undefined)
             => result.contentType = S_textplain

(***************************************************************************)
(* parseMultipartMessage (lines 120-171).                                  *)
(***************************************************************************)

\* The loop of lines 139-146 over the lines of a part's header block.
RECURSIVE PartHeaderLines(_, _, _)
PartHeaderLines(headerLines, i, h) ==
    IF i > Len(headerLines) THEN h
    ELSE LET line == headerLines[i]
             match == HeaderMatch(line)
         IN  IF Trim(line) # <<>> /\ match.ok
             THEN PartHeaderLines(headerLines, i + 1, Put(h, match.name, match.value))
             ELSE PartHeaderLines(headerLines, i + 1, h)

PartHeaders(headersText) == PartHeaderLines(Split(headersText, CRLF), 1, NoHeaders)

\* headers[name] || fallback
HeaderOr(h, name, fallback) ==
    IF name \in DOMAIN h /\ h[name] # <<>> THEN h[name] ELSE fallback

\* Lines 156-160 with each accumulator written only while it is empty.
StorePart_firstWins(acc, contentType, decodedContent) ==
    IF Includes(contentType, S_textplain)
    THEN IF acc.textContent = <<>>
         THEN [acc EXCEPT !.textContent = decodedContent] ELSE acc
    ELSE IF Includes(contentType, S_texthtml)
    THEN IF acc.htmlContent = <<>>
         THEN [acc EXCEPT !.htmlContent = decodedContent] ELSE acc
    ELSE acc

\* Lines 156-160: the accumulators after a part of this type and content.
StorePart(acc, contentType, decodedContent) ==
    IF Includes(contentType, S_textplain)
    THEN [acc EXCEPT !.textContent = decodedContent]
    ELSE IF Includes(contentType, S_texthtml)
    THEN [acc EXCEPT !.htmlContent = decodedContent]
    ELSE acc

\* One iteration of the loop of lines 127-161.
ProcessPart(acc, part) ==
    IF Trim(part) = <<>> \/ Includes(part, S_dashdash) THEN acc
    ELSE LET pieces == Split(part, CRLFCRLF) IN
      IF Len(pieces) = 1 THEN acc
      ELSE LET content == Join(Tail(pieces), CRLFCRLF)
               h == PartHeaders(pieces[1])
               contentType == HeaderOr(h, S_ContentType, S_textplain)
               enc == HeaderOr(h, S_ContentTransferEncoding, S_7bit)
           IN  StorePart(acc, contentType, decodeBody(content, enc))

RECURSIVE ProcessParts(_, _, _)
ProcessParts(parts, i, acc) ==
    IF i > Len(parts) THEN acc
    ELSE ProcessParts(parts, i + 1, ProcessPart(acc, parts[i]))

\* Lines 163-170.
SelectContent(acc) ==
    IF acc.textContent # <<>> THEN acc.textContent
    ELSE IF acc.htmlContent # <<>> THEN StripHtml(acc.htmlContent)
    ELSE S_NoReadable

parseMultipartMessage(b, bnd) ==
    SelectContent(ProcessParts(Split(b, S_dashdash \o bnd), 1,
                               [textContent |-> <<>>, htmlContent |-> <<>>]))

\* The fragments a multipart body is drawn from, each following a "--b"
\* delimiter line: a text/plain part "Hi", a text/html part "<b>Yo</b>", a
\* text/plain part with no content, the terminator "--", a text/plain part
\* whose content holds "--", a base64 text/html part "<i>Y</i>", a
\* text/html part "<br>" and a part of type "TEXT/PLAIN".
FragmentChoices ==
    { <<13, 10, 67, 111, 110, 116, 101, 110, 116, 45, 84, 121, 112, 101, 58, 32, 116, 101, 120, 116, 47, 112, 108, 97, 105, 110, 13, 10, 13, 10, 72, 105, 13, 10>>,
      <<13, 10, 67, 111, 110, 116, 101, 110, 116, 45, 84, 121, 112, 101, 58, 32, 116, 101, 120, 116, 47, 104, 116, 109, 108, 13, 10, 13, 10, 60, 98, 62, 89, 111, 60, 47, 98, 62, 13, 10>>,
      <<13, 10, 67, 111, 110, 116, 101, 110, 116, 45, 84, 121, 112, 101, 58, 32, 116, 101, 120, 116, 47, 112, 108, 97, 105, 110, 13, 10, 13, 10>>,
      <<45, 45, 13, 10>>,
      <<13, 10, 67, 111, 110, 116, 101, 110, 116, 45, 84, 121, 112, 101, 58, 32, 116, 101, 120, 116, 47, 112, 108, 97, 105, 110, 13, 10, 13, 10, 97, 45, 45, 122, 13, 10>>,
      <<13, 10, 67, 111, 110, 116, 101, 110, 116, 45, 84, 121, 112, 101, 58, 32, 116, 101, 120, 116, 47, 104, 116, 109, 108, 13, 10, 67, 111, 110, 116, 101, 110, 116, 45, 84, 114, 97, 110, 115, 102, 101, 114, 45, 69, 110, 99, 111, 100, 105, 110, 103, 58, 32, 66, 65, 83, 69, 54, 52, 13, 10, 13, 10, 80, 71, 107, 43, 87, 84, 119, 118, 97, 84, 52, 61, 13, 10>>,
      <<13, 10, 67, 111, 110, 116, 101, 110, 116, 45, 84, 121, 112, 101, 58, 32, 116, 101, 120, 116, 47, 104, 116, 109, 108, 13, 10, 13, 10, 60, 98, 114, 62, 13, 10>>,
      <<13, 10, 67, 111, 110, 116, 101, 110, 116, 45, 84, 121, 112, 101, 58, 32, 84, 69, 88, 84, 47, 80, 76, 65, 73, 78, 13, 10, 13, 10, 85, 80, 13, 10>> }

\* What may precede the first delimiter: nothing, "This is MIME" CRLF, or
\* "Note: p" CRLF CRLF "PRE" CRLF.
PreambleChoices ==
    { <<>>,
      <<84, 104, 105, 115, 32, 105, 115, 32, 77, 73, 77, 69, 13, 10>>,
      <<78, 111, 116, 101, 58, 32, 112, 13, 10, 13, 10, 80, 82, 69, 13, 10>> }

\* The boundary "b"
S_b == <<98>>

MaxFragments == 3

RECURSIVE Delimited(_, _)
Delimited(fragments, bnd) ==
    IF fragments = <<>> THEN <<>>
    ELSE S_dashdash \o bnd \o Head(fragments) \o Delimited(Tail(fragments), bnd)

(***************************************************************************)
(* SpecMultipart: parseMultipartMessage applied to a body of a preamble    *)
(* and up to MaxFragments delimited fragments.                             *)
(***************************************************************************)
InitMultipart ==
    /\ pc = "start"
    /\ boundary = S_b
    /\ \E pre \in PreambleChoices :
         \E k \in 0 .. MaxFragments :
            \E fragments \in [1 .. k -> FragmentChoices] :
               body = pre \o Delimited(fragments, boundary)
    /\ encoding = Undefined
    /\ headers = NoHeaders
    /\ result = Undefined
    /\ result2 = Undefined
    /\ calls = <<>>
    /\ message = Undefined

ParseMultipartMessage ==
    /\ pc = "start"
    /\ result' = parseMultipartMessage(body, boundary)
    /\ pc' = "done"
    /\ UNCHANGED <<body, encoding, headers, boundary, result2, calls, message>>

NextMultipart == ParseMultipartMessage

SpecMultipart == InitMultipart /\ [][NextMultipart]_vars

\* The fragments of the body between its "--<boundary>" delimiters.
Fragments == Split(body, S_dashdash \o boundary)

\* The header block and the content of a fragment that has a blank line.
FragmentHeaders(f) == PartHeaders(SubSeq(f, 1, IndexOf(f, CRLFCRLF, 1) - 1))

FragmentContent(f) == SubSeq(f, IndexOf(f, CRLFCRLF, 1) + 4, Len(f))

FragmentType(f) == HeaderOr(FragmentHeaders(f), S_ContentType, S_textplain)

FragmentDecoded(f) ==
    decodeBody(FragmentContent(f),
               HeaderOr(FragmentHeaders(f), S_ContentTransferEncoding, S_7bit))

IsTextPlain(f) == Includes(FragmentType(f), S_textplain)

IsTextHtml(f) == ~IsTextPlain(f) /\ Includes(FragmentType(f), S_texthtml)

\* The decoded content of the last of the fragments frs, among those
\* numbered in parts, that is of the kind is(_); empty when there is none.
LastContent(frs, parts, is(_)) ==
    LET of == {i \in parts : is(frs[i])}
    IN  IF of = {} THEN <<>>
        ELSE FragmentDecoded(frs[CHOOSE i \in of : \A j \in of : j <= i])

\* What is returned when the fragments numbered in parts are the parts.
Selected(frs, parts) ==
    LET text == LastContent(frs, parts, IsTextPlain)
        html == LastContent(frs, parts, IsTextHtml)
    IN  IF text # <<>> THEN text
        ELSE IF html # <<>> THEN StripHtml(html)
        ELSE S_NoReadable

\* The fragments the loop processes: not blank, holding no "--" and
\* holding a CRLF CRLF separator.
ProcessedParts(frs) ==
    {i \in 1 .. Len(frs) :
        /\ Trim(frs[i]) # <<>>
        /\ ~Includes(frs[i], S_dashdash)
        /\ Includes(frs[i], CRLFCRLF)}

\* C6: parseMultipartMessage returns the decoded content of the last
\* processed text/plain part if that is not empty; otherwise the content of
\* the last processed text/html part, tags stripped and white space
\* collapsed, if that content is not empty; otherwise the sentinel.  Parts
\* of any other type have no influence.
C6_LastPartWinsPlainPreferred ==
    pc = "done" =>
        LET frs == Fragments IN result = Selected(frs, ProcessedParts(frs))

\* An html part, then a text part "Hi", then a text part with no content:
\* the last text part is empty, so the html part "<b>Yo</b>" is returned,
\* stripped, as "Yo".
C6_Witness ==
    /\ pc = "done"
    /\ result = <<89, 111>>
    /\ LET frs == Fragments
           parts == ProcessedParts(frs)
       IN  /\ Cardinality({i \in parts : IsTextPlain(frs[i])}) = 2
           /\ Cardinality({i \in parts : IsTextHtml(frs[i])}) = 1
           /\ LastContent(frs, parts, IsTextPlain) = <<>>

\* The fragments that are parts by their place: every fragment but the
\* first (the preamble) and the terminator, which starts with "--", that has
\* a CRLF CRLF separator.
PartsByPlace(frs) ==
    {i \in 2 .. Len(frs) :
        /\ ~StartsWith(frs[i], S_dashdash)
        /\ Includes(frs[i], CRLFCRLF)}

\* C9: the preamble and the terminator fragment never contribute to the
\* result, and every other fragment with a CRLF CRLF separator is processed
\* as a part.
C9_PreambleAndTerminatorSkipped ==
    pc = "done" =>
        LET frs == Fragments IN result = Selected(frs, PartsByPlace(frs))

(***************************************************************************)
(* The two body-rendering paths of main: the structured path (lines        *)
(* 264-314), taken when the fetch returned message.parts.TEXT, and the raw *)
(* path (lines 315-394), taken when it returned message.raw only.          *)
(*                                                                         *)
(* What is printed is modelled by the record Shown(kind, text): kind names *)
(* the branch, text the content printed.                                   *)
(***************************************************************************)
Shown(kind, text) == [threw |-> FALSE, kind |-> kind, text |-> text]

\* Nothing printed yet.
NothingShown == Shown("none", <<>>)

\* An exception left the rendering.
ShownThrown == [threw |-> TRUE, kind |-> "none", text |-> <<>>]

\* Lines 264-285: the default, or getContentInfo(message.headers).
MessageContentInfo(msg) ==
    IF msg.hasHeaders THEN getContentInfo(msg.headers)
    ELSE ContentInfo(S_textplain, S_7bit, Undefined)

\* Lines 290-314.
StructuredPath(msg) ==
    LET contentInfo == MessageContentInfo(msg)
        rawBodyText == decodeUint8Array(msg.text)
    IN  IF contentInfo.threw THEN ShownThrown
        ELSE IF /\ StartsWith(contentInfo.contentType, S_multipart)
                /\ contentInfo.boundary # Undefined
        THEN Shown("multipart",
                   parseMultipartMessage(rawBodyText, contentInfo.boundary))
        ELSE LET decodedBody == decodeBody(rawBodyText, contentInfo.encoding)
             IN  IF Includes(contentInfo.contentType, S_html)
                 THEN Shown("html", StripHtml(decodedBody))
                 ELSE Shown("plain", decodedBody)

\* Lines 316-394.
RawPath(raw) ==
    LET rawText == decodeUint8Array(raw)
        parts == Split(rawText, CRLFCRLF)
    IN  IF Len(parts) <= 1 THEN Shown("noextract", <<>>)
        ELSE
          LET h == parseHeaderBlock(parts[1])
              hasType == S_ContentType \in DOMAIN h /\ h[S_ContentType] # <<>>
              contentType == IF hasType THEN h[S_ContentType] ELSE S_textplain
              enc == IF hasType THEN HeaderOr(h, S_ContentTransferEncoding, S_7bit)
                     ELSE S_7bit
              bnd == IF hasType THEN BoundaryMatch(h[S_ContentType]) ELSE Undefined
              bodyText == Join(Tail(parts), CRLFCRLF)
          IN  IF Includes(contentType, S_multipart) /\ bnd # Undefined
              THEN Shown("multipart", parseMultipartMessage(bodyText, bnd))
              ELSE LET decodedBody == decodeBody(bodyText, enc)
                   IN  IF Includes(ToLowerCase(contentType), S_html)
                       THEN Shown("html", StripHtml(decodedBody))
                       ELSE Shown("plain", decodedBody)

\* Lines 290, 315 and 395: which body the message carries.
RenderMessage(msg) ==
    IF msg.text # Undefined THEN StructuredPath(msg)
    ELSE IF MessageContentInfo(msg).threw THEN ShownThrown
    ELSE IF msg.raw # Undefined THEN RawPath(msg.raw)
    ELSE Shown("nobody", <<>>)

\* The Content-Type lines a message is drawn from; <<>> is no such line.
TypeLineChoices ==
    { <<>>,
      \* Content-Type: text/plain
      <<67, 111, 110, 116, 101, 110, 116, 45, 84, 121, 112, 101, 58, 32, 116, 101, 120, 116, 47, 112, 108, 97, 105, 110>>,
      \* Content-Type: text/html
      <<67, 111, 110, 116, 101, 110, 116, 45, 84, 121, 112, 101, 58, 32, 116, 101, 120, 116, 47, 104, 116, 109, 108>>,
      \* Content-Type: Text/HTML; charset=utf-8
      <<67, 111, 110, 116, 101, 110, 116, 45, 84, 121, 112, 101, 58, 32, 84, 101, 120, 116, 47, 72, 84, 77, 76, 59, 32, 99, 104, 97, 114, 115, 101, 116, 61, 117, 116, 102, 45, 56>>,
      \* Content-Type: multipart/mixed; boundary=b
      <<67, 111, 110, 116, 101, 110, 116, 45, 84, 121, 112, 101, 58, 32, 109, 117, 108, 116, 105, 112, 97, 114, 116, 47, 109, 105, 120, 101, 100, 59, 32, 98, 111, 117, 110, 100, 97, 114, 121, 61, 98>>,
      \* Content-Type: Multipart/Mixed; boundary="b"
      <<67, 111, 110, 116, 101, 110, 116, 45, 84, 121, 112, 101, 58, 32, 77, 117, 108, 116, 105, 112, 97, 114, 116, 47, 77, 105, 120, 101, 100, 59, 32, 98, 111, 117, 110, 100, 97, 114, 121, 61, 34, 98, 34>>,
      \* Content-Type: multipart/mixed; CRLF SP boundary=b
      <<67, 111, 110, 116, 101, 110, 116, 45, 84, 121, 112, 101, 58, 32, 109, 117, 108, 116, 105, 112, 97, 114, 116, 47, 109, 105, 120, 101, 100, 59, 13, 10, 32, 98, 111, 117, 110, 100, 97, 114, 121, 61, 98>>,
      \* Content-Type: text/plain; name=a.html
      <<67, 111, 110, 116, 101, 110, 116, 45, 84, 121, 112, 101, 58, 32, 116, 101, 120, 116, 47, 112, 108, 97, 105, 110, 59, 32, 110, 97, 109, 101, 61, 97, 46, 104, 116, 109, 108>> }

\* The Content-Transfer-Encoding lines; <<>> is no such line.
EncodingLineChoices ==
    { <<>>,
      \* Content-Transfer-Encoding: base64
      <<67, 111, 110, 116, 101, 110, 116, 45, 84, 114, 97, 110, 115, 102, 101, 114, 45, 69, 110, 99, 111, 100, 105, 110, 103, 58, 32, 98, 97, 115, 101, 54, 52>>,
      \* Content-Transfer-Encoding: BASE64
      <<67, 111, 110, 116, 101, 110, 116, 45, 84, 114, 97, 110, 115, 102, 101, 114, 45, 69, 110, 99, 111, 100, 105, 110, 103, 58, 32, 66, 65, 83, 69, 54, 52>>,
      \* Content-Transfer-Encoding: base64 SP
      <<67, 111, 110, 116, 101, 110, 116, 45, 84, 114, 97, 110, 115, 102, 101, 114, 45, 69, 110, 99, 111, 100, 105, 110, 103, 58, 32, 98, 97, 115, 101, 54, 52, 32>>,
      \* Content-Transfer-Encoding: quoted-printable
      <<67, 111, 110, 116, 101, 110, 116, 45, 84, 114, 97, 110, 115, 102, 101, 114, 45, 69, 110, 99, 111, 100, 105, 110, 103, 58, 32, 113, 117, 111, 116, 101, 100, 45, 112, 114, 105, 110, 116, 97, 98, 108, 101>> }

\* The bodies (bytes): "SGk=", "<b>Yo</b> a=3Db", a multipart body with a
\* text/plain part "Hi" and one with a text/html part "<p>Yo</p>".
BodyChoices ==
    { <<83, 71, 107, 61>>,
      <<60, 98, 62, 89, 111, 60, 47, 98, 62, 32, 97, 61, 51, 68, 98>>,
      <<45, 45, 98, 13, 10, 67, 111, 110, 116, 101, 110, 116, 45, 84, 121, 112, 101, 58, 32, 116, 101, 120, 116, 47, 112, 108, 97, 105, 110, 13, 10, 13, 10, 72, 105, 13, 10, 45, 45, 98, 45, 45, 13, 10>>,
      <<45, 45, 98, 13, 10, 67, 111, 110, 116, 101, 110, 116, 45, 84, 121, 112, 101, 58, 32, 116, 101, 120, 116, 47, 104, 116, 109, 108, 13, 10, 13, 10, 60, 112, 62, 89, 111, 60, 47, 112, 62, 13, 10, 45, 45, 98, 45, 45, 13, 10>> }

\* "Subject: s"
S_SubjectLine == <<83, 117, 98, 106, 101, 99, 116, 58, 32, 115>>

\* The header block of a message with these two lines after its Subject.
HeaderBlock(typeLine, encodingLine) ==
    Join(SelectSeq(<<S_SubjectLine, typeLine, encodingLine>>, LAMBDA l : l # <<>>),
         CRLF)

\* The header map of the structured message for a header block: each header
\* of the block, unfolded, as a string.
StructuredHeaders(block) ==
    LET h == parseHeaderBlock(block) IN [n \in DOMAIN h |-> Str(h[n])]

\* A mail as the fetch returns it with message.headers and message.parts.TEXT
\* and with message.raw.
FetchedMessage(typeLine, encodingLine, bytes) ==
    [hasHeaders |-> TRUE,
     headers |-> StructuredHeaders(HeaderBlock(typeLine, encodingLine)),
     text |-> bytes,
     raw |-> HeaderBlock(typeLine, encodingLine) \o CRLFCRLF \o bytes]

Mails ==
    {FetchedMessage(t, e, b) :
        t \in TypeLineChoices, e \in EncodingLineChoices, b \in BodyChoices}

(***************************************************************************)
(* SpecPaths: the structured path and the raw path applied to the same     *)
(* mail.                                                                   *)
(***************************************************************************)
InitPaths ==
    /\ pc = "start"
    /\ message \in Mails
    /\ result = Undefined
    /\ result2 = Undefined
    /\ body = <<>>
    /\ encoding = Undefined
    /\ headers = NoHeaders
    /\ boundary = Undefined
    /\ calls = <<>>

RunStructuredPath ==
    /\ pc \in {"start", "raw"}
    /\ result' = StructuredPath(message)
    /\ pc' = IF pc = "start" THEN "structured" ELSE "both"
    /\ UNCHANGED <<body, encoding, headers, boundary, result2, calls, message>>

RunRawPath ==
    /\ pc \in {"start", "structured"}
    /\ result2' = RawPath(message.raw)
    /\ pc' = IF pc = "start" THEN "raw" ELSE "both"
    /\ UNCHANGED <<body, encoding, headers, boundary, result, calls, message>>

NextPaths == RunStructuredPath \/ RunRawPath

SpecPaths == InitPaths /\ [][NextPaths]_vars

\* C7: for the same header block and body the raw path takes the same
\* branch as the structured path and prints the same text.
C7_RawPathEqualsStructuredPath ==
    pc = "both" => result2 = result

(***************************************************************************)
(* main (lines 199-406): the calls it makes on the client, in order.  Each *)
(* action is what main does from one await to the next; every call on the *)
(* client either resolves or rejects.                                      *)
(***************************************************************************)

\* Where main goes on leaving the try block only at its end: a return or an
\* exception inside it skips the disconnect.
Leave_endOnly(how) == IF how = "end" THEN "finally" ELSE "done"

\* Where main goes on leaving the try block: by a return, by an exception
\* (the catch block only logs) or at its end, the finally block runs.
Leave(how) == "finally"

\* What client.fetch may resolve to as messages[0]: a mail with
\* parts.TEXT, the same with message.raw only, with no headers, with
\* neither body, and with an empty array as its Content-Type header.
FetchResults ==
    Mails
      \cup {[m EXCEPT !.text = Undefined] : m \in Mails}
      \cup {[m EXCEPT !.text = Undefined, !.hasHeaders = FALSE, !.headers = NoHeaders] :
                m \in Mails}
      \cup {[m EXCEPT !.text = Undefined, !.raw = Undefined] : m \in Mails}
      \cup {[m EXCEPT !.headers = Put(m.headers, S_ContentType, Arr(<<>>))] :
                m \in Mails}

InitMain ==
    /\ pc = "connect"
    /\ calls = <<>>
    /\ message = Undefined
    /\ result = NothingShown
    /\ result2 = Undefined
    /\ body = <<>>
    /\ encoding = Undefined
    /\ headers = NoHeaders
    /\ boundary = Undefined

\* Line 202: await client.connect()
Connect ==
    /\ pc = "connect"
    /\ calls' = Append(calls, "connect")
    /\ \/ pc' = "authenticate"
       \/ pc' = Leave("throw")
    /\ UNCHANGED <<body, encoding, headers, boundary, result, result2, message>>

\* Line 203: await client.authenticate()
Authenticate ==
    /\ pc = "authenticate"
    /\ calls' = Append(calls, "authenticate")
    /\ \/ pc' = "select"
       \/ pc' = Leave("throw")
    /\ UNCHANGED <<body, encoding, headers, boundary, result, result2, message>>

\* Lines 207-213: await client.selectMailbox("INBOX"), and the return when
\* the mailbox is empty.
SelectMailbox ==
    /\ pc = "select"
    /\ calls' = Append(calls, "selectMailbox")
    /\ \/ pc' = "fetch"
       \/ pc' = Leave("return")
       \/ pc' = Leave("throw")
    /\ UNCHANGED <<body, encoding, headers, boundary, result, result2, message>>

\* Lines 219-229: await client.fetch(...) rejecting, or resolving to no
\* message.
FetchNothing ==
    /\ pc = "fetch"
    /\ calls' = Append(calls, "fetch")
    /\ \/ pc' = Leave("return")
       \/ pc' = Leave("throw")
    /\ UNCHANGED <<body, encoding, headers, boundary, result, result2, message>>

\* Lines 219-397: await client.fetch(...) resolving to a message, which is
\* then displayed; an exception while decoding it is caught.
FetchAndShow ==
    /\ pc = "fetch"
    /\ calls' = Append(calls, "fetch")
    /\ \E m \in FetchResults :
          /\ message' = m
          /\ result' = RenderMessage(m)
          /\ pc' = IF RenderMessage(m).threw THEN Leave("throw") ELSE Leave("end")
    /\ UNCHANGED <<body, encoding, headers, boundary, result2>>

\* Lines 401-405: await client.disconnect(), after which main is over
\* whether it resolves or rejects.
Disconnect ==
    /\ pc = "finally"
    /\ calls' = Append(calls, "disconnect")
    /\ pc' = "done"
    /\ UNCHANGED <<body, encoding, headers, boundary, result, result2, message>>

NextMain ==
    \/ Connect
    \/ Authenticate
    \/ SelectMailbox
    \/ FetchNothing
    \/ FetchAndShow
    \/ Disconnect

SpecMain == InitMain /\ [][NextMain]_vars

\* C10: on every execution of main, whichever step fails or returns early,
\* client.disconnect() is called exactly once, after every other call on
\* the client: no call follows it, main is not over before it, and main can
\* always go on until it is over.
C10_DisconnectOnceLast ==
    /\ \A i \in 1 .. Len(calls) :
          calls[i] = "disconnect" => (i = Len(calls) /\ pc = "done")
    /\ pc = "done" => (calls # <<>> /\ calls[Len(calls)] = "disconnect")
    /\ pc # "done" => ENABLED NextMain

\* main is over after a fetched message failed to decode: the disconnect
\* is the fifth and last call.
C10_Witness ==
    /\ pc = "done"
    /\ result.threw
    /\ calls = <<"connect", "authenticate", "selectMailbox", "fetch", "disconnect">>

====
